---- MODULE Spec2Model ----
(***************************************************************************)
(* Model of src/workspace.rs: the WorkspaceManager registry of named       *)
(* Workspace records with a current selection.                             *)
(*                                                                         *)
(* A manager is the pair of fields (workspaces, current_workspace).  The   *)
(* methods are operators on manager values, translated from the method     *)
(* bodies; the actions apply them to the one manager the program owns and  *)
(* record the call and the value it returned.                              *)
(***************************************************************************)
EXTENDS Integers, Sequences, FiniteSets, TLC

\* ------------------------------------------------------------------ bounds
MaxNames == 3
MaxPaths == 2
MaxLen == 3

NamePool == <<"a", "b", "c", "d", "e">>
PathPool == <<"/p1", "/p2", "/p3", "/p4">>

Names == {NamePool[i] : i \in 1..MaxNames}
Paths == {PathPool[i] : i \in 1..MaxPaths}

\* ------------------------------------------------------------- data model
\* struct Workspace { name, path }
Workspace == [name : Names, path : Paths]

\* Placeholders filling the unused fields of a call or return record.
NoName == ""
NoWorkspace == [name |-> "", path |-> ""]

\* HashMap::new(): the map with no entry.
EmptyMap == [k \in {} |-> NoWorkspace]

\* struct WorkspaceManager { workspaces, current_workspace }
Manager(ws, cur) == [workspaces |-> ws, current_workspace |-> cur]

\* Values a method returns.  kind is the variant; workspace is the name
\* carried by WorkspaceNotFound; record is the Workspace behind Some / &.
Ret(kind, n, w) == [kind |-> kind, workspace |-> n, record |-> w]
WorkspaceNotFound(n) == Ret("Err", n, NoWorkspace)
OkUnit == Ret("Ok", NoName, NoWorkspace)
Some(w) == Ret("Some", NoName, w)
None == Ret("None", NoName, NoWorkspace)
Ref(w) == Ret("Ref", NoName, w)
Panic == Ret("Panic", NoName, NoWorkspace)
NoRet == Ret("NoRet", NoName, NoWorkspace)

\* ---------------------------------------------------------------- HashMap
\* insert_keep_existing: a map insert that keeps an entry already present.
insert_keep_existing(map, k, v) ==
    [x \in DOMAIN map \cup {k} |-> IF x \in DOMAIN map THEN map[x] ELSE v]

\* HashMap::insert(k, v): adds the entry, replacing the one already under k.
insert(map, k, v) ==
    [x \in DOMAIN map \cup {k} |-> IF x = k THEN v ELSE map[x]]

\* HashMap::get(k)
get(map, k) == IF k \in DOMAIN map THEN Some(map[k]) ELSE None

RECURSIVE extend(_, _)
\* Extend::extend, as used by collect: inserts the pairs in iteration order.
extend(map, seq) ==
    IF seq = << >> THEN map
    ELSE extend(insert(map, Head(seq).name, Head(seq)), Tail(seq))

RECURSIVE extend_first_wins(_, _)
extend_first_wins(map, seq) ==
    IF seq = << >> THEN map
    ELSE extend_first_wins(insert_keep_existing(map, Head(seq).name, Head(seq)),
                           Tail(seq))

collect_first_wins(seq) == extend_first_wins(EmptyMap, seq)

\* workspaces.into_iter().map(|w| (w.name.clone(), w)).collect::<HashMap>()
collect(seq) == extend(EmptyMap, seq)

\* workspaces.iter().any(|w| w.name == default_workspace)
any_named(seq, n) == \E i \in 1..Len(seq) : seq[i].name = n

\* ------------------------------------------------------ WorkspaceManager
from_single_workspace_unselected(workspace) ==
    Manager(insert(EmptyMap, workspace.name, workspace), NoName)

\* from_single_workspace(workspace) -> WorkspaceManager
from_single_workspace(workspace) ==
    LET name == workspace.name
    IN  Manager(insert(EmptyMap, name, workspace), name)

new_unchecked(workspaces, default_workspace) ==
    [ret |-> OkUnit, ok |-> TRUE,
     mgr |-> Manager(collect(workspaces), default_workspace)]

new_first_selected(workspaces, default_workspace) ==
    IF ~any_named(workspaces, default_workspace)
    THEN [ret |-> WorkspaceNotFound(default_workspace), ok |-> FALSE,
          mgr |-> Manager(EmptyMap, NoName)]
    ELSE [ret |-> OkUnit, ok |-> TRUE,
          mgr |-> Manager(collect(workspaces), workspaces[1].name)]

\* new(workspaces, default_workspace) -> Result<WorkspaceManager, WorkspaceNotFound>
\* ok tells whether a manager came back; mgr is that manager.
new(workspaces, default_workspace) ==
    IF ~any_named(workspaces, default_workspace)
    THEN [ret |-> WorkspaceNotFound(default_workspace), ok |-> FALSE,
          mgr |-> Manager(EmptyMap, NoName)]
    ELSE [ret |-> OkUnit, ok |-> TRUE,
          mgr |-> Manager(collect(workspaces), default_workspace)]

get_workspace_or_err(self, name) ==
    IF name \in DOMAIN self.workspaces
    THEN Some(self.workspaces[name])
    ELSE WorkspaceNotFound(name)

\* get_workspace(&self, name) -> Option<&Workspace>
get_workspace(self, name) == get(self.workspaces, name)

set_current_workspace_unchecked(self, name) ==
    [ret |-> OkUnit, mgr |-> Manager(self.workspaces, name)]

set_current_workspace_assign_first(self, name) ==
    IF get(self.workspaces, name).kind = "None"
    THEN [ret |-> WorkspaceNotFound(name), mgr |-> Manager(self.workspaces, name)]
    ELSE [ret |-> OkUnit, mgr |-> Manager(self.workspaces, name)]

set_current_workspace_no_assign(self, name) ==
    IF get(self.workspaces, name).kind = "None"
    THEN [ret |-> WorkspaceNotFound(name), mgr |-> self]
    ELSE [ret |-> OkUnit, mgr |-> self]

\* Tests the key with HashMap::remove in place of HashMap::get.
set_current_workspace_removing(self, name) ==
    IF get(self.workspaces, name).kind = "None"
    THEN [ret |-> WorkspaceNotFound(name), mgr |-> self]
    ELSE [ret |-> OkUnit,
          mgr |-> Manager([x \in DOMAIN self.workspaces \ {name}
                             |-> self.workspaces[x]], name)]

\* set_current_workspace(&mut self, name) -> Result<(), WorkspaceNotFound>
set_current_workspace(self, name) ==
    IF get(self.workspaces, name).kind = "None"
    THEN [ret |-> WorkspaceNotFound(name), mgr |-> self]
    ELSE [ret |-> OkUnit, mgr |-> Manager(self.workspaces, name)]

\* get_current_workspace(&self) -> &Workspace; unwrap panics on None.
get_current_workspace(self) ==
    LET found == get(self.workspaces, self.current_workspace)
    IN  IF found.kind = "Some" THEN Ref(found.record) ELSE Panic

add_workspace_selecting(self, workspace) ==
    Manager(insert(self.workspaces, workspace.name, workspace), workspace.name)

add_workspace_keep_existing(self, workspace) ==
    Manager(insert_keep_existing(self.workspaces, workspace.name, workspace),
            self.current_workspace)

\* Selects the workspace when its name was not a key yet.
add_workspace_selecting_new(self, workspace) ==
    Manager(insert(self.workspaces, workspace.name, workspace),
            IF workspace.name \in DOMAIN self.workspaces
            THEN self.current_workspace ELSE workspace.name)

\* Stores the workspace under the selected name.
add_workspace_keyed_by_current(self, workspace) ==
    Manager(insert(self.workspaces, self.current_workspace, workspace),
            self.current_workspace)

\* Rebuilds the map from the one workspace, keeping the selected entry.
add_workspace_replacing_map(self, workspace) ==
    Manager(insert(insert(EmptyMap, self.current_workspace,
                          self.workspaces[self.current_workspace]),
                   workspace.name, workspace),
            self.current_workspace)

\* add_workspace(&mut self, workspace)
add_workspace(self, workspace) ==
    Manager(insert(self.workspaces, workspace.name, workspace),
            self.current_workspace)

\* ------------------------------------------------------------------ state
VARIABLES
    pc,                 \* "start": no manager yet; "ready": the manager exists
    workspaces,         \* WorkspaceManager.workspaces
    current_workspace,  \* WorkspaceManager.current_workspace
    call,               \* the last call made: method and arguments
    ret,                \* the value that call returned
    selected,           \* history: names set_current_workspace returned Ok for
    reselected          \* history: the last call was an Ok selection of a name
                        \* that set_current_workspace had returned Ok for before

vars == <<pc, workspaces, current_workspace, call, ret, selected, reselected>>

mgr == Manager(workspaces, current_workspace)

Call(op, n, w, seq) == [op |-> op, name |-> n, workspace |-> w, workspaces |-> seq]

\* The argument lists new() is called with.
WorkspaceSeqs == UNION {[1..n -> Workspace] : n \in 0..MaxLen}

Init ==
    /\ pc = "start"
    /\ workspaces = EmptyMap
    /\ current_workspace = NoName
    /\ call = Call("none", NoName, NoWorkspace, << >>)
    /\ ret = NoRet
    /\ selected = {}
    /\ reselected = FALSE

\* let m = WorkspaceManager::from_single_workspace(w);
FromSingleWorkspace ==
    /\ pc = "start"
    /\ \E w \in Workspace :
         LET m == from_single_workspace(w)
         IN  /\ workspaces' = m.workspaces
             /\ current_workspace' = m.current_workspace
             /\ call' = Call("from_single_workspace", NoName, w, << >>)
             /\ ret' = OkUnit
    /\ pc' = "ready"
    /\ selected' = selected
    /\ reselected' = FALSE

\* let m = WorkspaceManager::new(seq, default)?;  On Err no manager exists.
New ==
    /\ pc = "start"
    /\ \E seq \in WorkspaceSeqs, default \in Names :
         LET r == new(seq, default)
         IN  /\ call' = Call("new", default, NoWorkspace, seq)
             /\ ret' = r.ret
             /\ IF r.ok
                THEN /\ workspaces' = r.mgr.workspaces
                     /\ current_workspace' = r.mgr.current_workspace
                     /\ pc' = "ready"
                ELSE UNCHANGED <<pc, workspaces, current_workspace>>
    /\ selected' = selected
    /\ reselected' = FALSE

\* m.get_workspace(&name)
GetWorkspace ==
    /\ pc = "ready"
    /\ \E name \in Names :
         /\ call' = Call("get_workspace", name, NoWorkspace, << >>)
         /\ ret' = get_workspace(mgr, name)
    /\ UNCHANGED <<pc, workspaces, current_workspace, selected>>
    /\ reselected' = FALSE

\* m.set_current_workspace(name)
SetCurrentWorkspace ==
    /\ pc = "ready"
    /\ \E name \in Names :
         LET r == set_current_workspace(mgr, name)
         IN  /\ call' = Call("set_current_workspace", name, NoWorkspace, << >>)
             /\ ret' = r.ret
             /\ workspaces' = r.mgr.workspaces
             /\ current_workspace' = r.mgr.current_workspace
             /\ selected' = IF r.ret.kind = "Ok" THEN selected \cup {name}
                                                ELSE selected
             /\ reselected' = (r.ret.kind = "Ok" /\ name \in selected)
    /\ UNCHANGED pc

\* m.get_current_workspace(); a panic ends the program.
GetCurrentWorkspace ==
    /\ pc = "ready"
    /\ call' = Call("get_current_workspace", NoName, NoWorkspace, << >>)
    /\ ret' = get_current_workspace(mgr)
    /\ pc' = IF ret'.kind = "Panic" THEN "panicked" ELSE pc
    /\ UNCHANGED <<workspaces, current_workspace, selected>>
    /\ reselected' = FALSE

\* m.add_workspace(w)
AddWorkspace ==
    /\ pc = "ready"
    /\ \E w \in Workspace :
         LET m == add_workspace(mgr, w)
         IN  /\ call' = Call("add_workspace", NoName, w, << >>)
             /\ ret' = OkUnit
             /\ workspaces' = m.workspaces
             /\ current_workspace' = m.current_workspace
    /\ UNCHANGED <<pc, selected>>
    /\ reselected' = FALSE

Next ==
    \/ FromSingleWorkspace
    \/ New
    \/ GetWorkspace
    \/ SetCurrentWorkspace
    \/ GetCurrentWorkspace
    \/ AddWorkspace

Spec == Init /\ [][Next]_vars

TypeOK ==
    /\ pc \in {"start", "ready", "panicked"}
    /\ DOMAIN workspaces \subseteq Names
    /\ \A k \in DOMAIN workspaces : workspaces[k] \in Workspace
    /\ current_workspace \in Names \cup {NoName}
    /\ selected \subseteq Names
    /\ reselected \in BOOLEAN

\* --------------------------------------------------- vocabulary of claims
NamesOf(seq) == {seq[i].name : i \in 1..Len(seq)}
PairwiseDistinct(seq) ==
    \A i, j \in 1..Len(seq) : i # j => seq[i].name # seq[j].name
\* The index of the last element of seq named n.
LastIndex(seq, n) ==
    CHOOSE i \in 1..Len(seq) :
        /\ seq[i].name = n
        /\ \A j \in (i + 1)..Len(seq) : seq[j].name # n

\* C1: once a manager exists, current_workspace is a key of the mapping, and
\* get_current_workspace never panics on its unwrap.
C1_CurrentIsKey ==
    /\ pc # "start" => current_workspace \in DOMAIN workspaces
    /\ ret.kind # "Panic"
    /\ pc # "panicked"

\* get_current_workspace answered after adds and a failed selection.
C1_Witness ==
    /\ call.op = "get_current_workspace"
    /\ ret.kind = "Ref"
    /\ ret.record = workspaces[current_workspace]
    /\ Cardinality(DOMAIN workspaces) >= 2

\* C2: set_current_workspace(name) with name not a key returns
\* WorkspaceNotFound(name) and leaves the selection and the whole mapping as
\* they were, so get_current_workspace returns the same record as before.
C2_AbsentSetFails ==
    [][(call'.op = "set_current_workspace" /\ call'.name \notin DOMAIN workspaces)
        => /\ ret' = WorkspaceNotFound(call'.name)
           /\ current_workspace' = current_workspace
           /\ workspaces' = workspaces
           /\ get_current_workspace(Manager(workspaces', current_workspace'))
                = get_current_workspace(Manager(workspaces, current_workspace))]_vars

C2_Witness ==
    /\ call.op = "set_current_workspace"
    /\ call.name \notin DOMAIN workspaces
    /\ ret = WorkspaceNotFound(call.name)
    /\ current_workspace \in DOMAIN workspaces

\* C3: set_current_workspace(n) succeeds exactly when n is a key, and right
\* after a success get_current_workspace() returns a record named n.
C3_SetSucceedsIffKey ==
    [][call'.op = "set_current_workspace"
        => /\ (ret'.kind = "Ok") <=> (call'.name \in DOMAIN workspaces)
           /\ ret'.kind = "Ok" =>
                LET got == get_current_workspace(Manager(workspaces', current_workspace'))
                IN  got.kind = "Ref" /\ got.record.name = call'.name]_vars

\* A successful selection of a name other than the one constructed with.
C3_Witness ==
    /\ call.op = "set_current_workspace"
    /\ ret.kind = "Ok"
    /\ current_workspace = call.name
    /\ Cardinality(DOMAIN workspaces) >= 2

\* C4: new(seq, default) with default the name of no element (the empty seq
\* included) returns WorkspaceNotFound(default) and produces no manager.
C4_NewAbsentDefaultFails ==
    (call.op = "new" /\ call.name \notin NamesOf(call.workspaces))
        => /\ ret = WorkspaceNotFound(call.name)
           /\ pc = "start"
           /\ workspaces = EmptyMap
           /\ current_workspace = NoName

C4_Witness ==
    /\ call.op = "new"
    /\ Len(call.workspaces) >= 2
    /\ call.name \notin NamesOf(call.workspaces)
    /\ ret.kind = "Err"

\* C5: new(seq, name) on a non-empty seq with pairwise-distinct names and a
\* name occurring in it succeeds; the mapping's keys are exactly the names of
\* seq, each mapped to its record; get_current_workspace().name = name.
C5_NewDistinctSucceeds ==
    (/\ call.op = "new"
     /\ Len(call.workspaces) >= 1
     /\ PairwiseDistinct(call.workspaces)
     /\ call.name \in NamesOf(call.workspaces))
        => /\ ret.kind = "Ok"
           /\ pc = "ready"
           /\ DOMAIN workspaces = NamesOf(call.workspaces)
           /\ \A i \in 1..Len(call.workspaces) :
                workspaces[call.workspaces[i].name] = call.workspaces[i]
           /\ get_current_workspace(mgr).kind = "Ref"
           /\ get_current_workspace(mgr).record.name = call.name

\* The default is not the first element.
C5_Witness ==
    /\ call.op = "new"
    /\ Len(call.workspaces) >= 2
    /\ PairwiseDistinct(call.workspaces)
    /\ call.name \in NamesOf(call.workspaces)
    /\ call.name # call.workspaces[1].name
    /\ ret.kind = "Ok"
    /\ pc = "ready"

\* C6: from_single_workspace(w) always succeeds; the mapping has exactly one
\* entry, keyed by w.name and holding w, and the selection is w.name.
C6_FromSingle ==
    call.op = "from_single_workspace"
        => /\ pc = "ready"
           /\ ret.kind = "Ok"
           /\ DOMAIN workspaces = {call.workspace.name}
           /\ workspaces[call.workspace.name] = call.workspace
           /\ current_workspace = call.workspace.name

C6_Witness ==
    /\ call.op = "from_single_workspace"
    /\ pc = "ready"
    /\ call.workspace \in Workspace
    /\ Cardinality(DOMAIN workspaces) = 1

\* C7: after add_workspace(w), get_workspace(w.name) returns w; the set of
\* keys is unchanged when w.name was a key and grows by exactly w.name when it
\* was not; every entry under a different name is unchanged.
C7_AddInsertsOrOverwrites ==
    [][call'.op = "add_workspace"
        => LET w == call'.workspace
           IN  /\ get_workspace(Manager(workspaces', current_workspace'), w.name)
                    = Some(w)
               /\ w.name \in DOMAIN workspaces
                    => DOMAIN workspaces' = DOMAIN workspaces
               /\ w.name \notin DOMAIN workspaces
                    => /\ DOMAIN workspaces' = DOMAIN workspaces \cup {w.name}
                       /\ Cardinality(DOMAIN workspaces')
                            = Cardinality(DOMAIN workspaces) + 1
               /\ \A k \in DOMAIN workspaces \ {w.name} :
                    /\ k \in DOMAIN workspaces'
                    /\ workspaces'[k] = workspaces[k]]_vars

\* An add that replaced the path of an entry next to an untouched one.
C7_Witness ==
    /\ call.op = "add_workspace"
    /\ Cardinality(DOMAIN workspaces) >= 2
    /\ workspaces[call.workspace.name] = call.workspace
    /\ call.workspace.path # PathPool[1]
    /\ \E k \in DOMAIN workspaces : workspaces[k].path = PathPool[1]

\* C8: add_workspace(w) never changes current_workspace, and when w.name is
\* the current name get_current_workspace() afterwards returns w.
C8_AddKeepsSelection ==
    [][call'.op = "add_workspace"
        => /\ current_workspace' = current_workspace
           /\ call'.workspace.name = current_workspace
                => get_current_workspace(Manager(workspaces', current_workspace'))
                     = Ref(call'.workspace)]_vars

\* An add under a name that is not the selected one.
C8_Witness ==
    /\ call.op = "add_workspace"
    /\ call.workspace.name # current_workspace
    /\ call.workspace.name \in DOMAIN workspaces
    /\ current_workspace \in DOMAIN workspaces

\* C9: get_workspace(name) returns the record stored under name when name is
\* a key and the absent value (no error) when it is not, and leaves the
\* mapping and current_workspace unchanged.
C9_GetWorkspacePure ==
    [][call'.op = "get_workspace"
        => /\ call'.name \in DOMAIN workspaces
                => ret' = Some(workspaces[call'.name])
           /\ call'.name \notin DOMAIN workspaces => ret' = None
           /\ workspaces' = workspaces
           /\ current_workspace' = current_workspace]_vars

\* A lookup of a name that is not a key.
C9_Witness ==
    /\ call.op = "get_workspace"
    /\ call.name \notin DOMAIN workspaces
    /\ ret = None
    /\ pc = "ready"

\* C10: new(seq, default) on a seq in which two or more elements share a name
\* succeeds whenever some element is named default; the mapping holds for
\* each name the last element of seq with that name; current_workspace is a
\* key of the mapping.
C10_NewDuplicatesLastWins ==
    (/\ call.op = "new"
     /\ ~PairwiseDistinct(call.workspaces)
     /\ call.name \in NamesOf(call.workspaces))
        => /\ ret.kind = "Ok"
           /\ pc = "ready"
           /\ DOMAIN workspaces = NamesOf(call.workspaces)
           /\ \A n \in NamesOf(call.workspaces) :
                workspaces[n] = call.workspaces[LastIndex(call.workspaces, n)]
           /\ current_workspace = call.name
           /\ current_workspace \in DOMAIN workspaces

\* The default names an element that a later one with another path replaced.
C10_Witness ==
    /\ call.op = "new"
    /\ ret.kind = "Ok"
    /\ \E i, j \in 1..Len(call.workspaces) :
         /\ i < j
         /\ call.workspaces[i].name = call.name
         /\ call.workspaces[j].name = call.name
         /\ call.workspaces[i].path # call.workspaces[j].path
         /\ workspaces[call.name] = call.workspaces[j]
    /\ current_workspace = call.name

\* C11: after construction the selection changes only through a successful
\* set_current_workspace: a step that changes current_workspace is
\* set_current_workspace(n) with n a key, returning Ok, and the new value is
\* n; add_workspace, get_workspace, get_current_workspace and a failing
\* set_current_workspace leave it as it was.
C11_SelectionChangesOnlyBySet ==
    [][pc = "ready"
        => /\ current_workspace' # current_workspace
                => /\ call'.op = "set_current_workspace"
                   /\ ret'.kind = "Ok"
                   /\ call'.name \in DOMAIN workspaces
                   /\ current_workspace' = call'.name
           /\ (\/ call'.op \in {"add_workspace", "get_workspace",
                                "get_current_workspace"}
               \/ (call'.op = "set_current_workspace" /\ ret'.kind = "Err"))
                => current_workspace' = current_workspace]_vars

\* A first selection of a name, made after another name had been selected:
\* the call moved the selection.
C11_Witness ==
    /\ call.op = "set_current_workspace"
    /\ ret.kind = "Ok"
    /\ ~reselected
    /\ Cardinality(selected) >= 2
    /\ current_workspace = call.name

\* C12: a successful set_current_workspace(name) leaves the mapping, its set
\* of keys and every stored record, identical.
C12_SetKeepsMapping ==
    [][(call'.op = "set_current_workspace" /\ ret'.kind = "Ok")
        => /\ DOMAIN workspaces' = DOMAIN workspaces
           /\ \A k \in DOMAIN workspaces : workspaces'[k] = workspaces[k]
           /\ workspaces' = workspaces]_vars

\* A successful selection in a manager holding every name.
C12_Witness ==
    /\ call.op = "set_current_workspace"
    /\ ret.kind = "Ok"
    /\ DOMAIN workspaces = Names
    /\ \E k \in DOMAIN workspaces : workspaces[k].path # workspaces[call.name].path

\* C13: every key k of the mapping maps to a record whose name is k, so
\* get_workspace(k), when present, returns a record named k.
C13_KeysNameTheirRecords ==
    /\ \A k \in DOMAIN workspaces : workspaces[k].name = k
    /\ \A k \in Names :
         get_workspace(mgr, k).kind = "Some" => get_workspace(mgr, k).record.name = k
    /\ (call.op = "get_workspace" /\ ret.kind = "Some") => ret.record.name = call.name

\* A lookup answered after an add under a name other than the selected one.
C13_Witness ==
    /\ call.op = "get_workspace"
    /\ ret.kind = "Some"
    /\ ret.record.name = call.name
    /\ call.name # current_workspace
    /\ Cardinality(DOMAIN workspaces) >= 2

\* C14: the set of keys only grows: a name that is a key stays a key in every
\* later state, and once set_current_workspace(n) has succeeded every later
\* set_current_workspace(n) succeeds, whatever calls came in between.
C14_KeysOnlyGrow ==
    [][/\ DOMAIN workspaces \subseteq DOMAIN workspaces'
       /\ selected \subseteq DOMAIN workspaces
       /\ selected' \subseteq DOMAIN workspaces'
       /\ (call'.op = "set_current_workspace" /\ call'.name \in selected)
            => ret'.kind = "Ok"]_vars

\* A name selected again after another selection came in between.
C14_Witness ==
    /\ call.op = "set_current_workspace"
    /\ ret.kind = "Ok"
    /\ reselected
    /\ call.name \in selected
    /\ Cardinality(selected) >= 2
====
